---- MODULE Spec2Model ----
(***************************************************************************)
(* A model of trove (src/src/main.rs): the registry of entries, the store  *)
(* directory, the host filesystem and the commands init / add / remove /   *)
(* deploy / pack / status.                                                 *)
(*                                                                         *)
(* Strings and paths are sequences of tokens.  A token is the separator    *)
(* "/", the five-character text "$HOME", or a file-name piece; a sequence  *)
(* denotes the concatenation of its tokens.  An Option<T> is a sequence of *)
(* length 0 (None) or 1 (Some).                                            *)
(*                                                                         *)
(* Every command line is a process of its own: it loads the Trove from the *)
(* registry file, works on it in memory and exits.  What lasts from one    *)
(* command to the next is the filesystem, which is the state here; the     *)
(* in-memory Trove is a value inside each command's outcome (its `trove`). *)
(***************************************************************************)
EXTENDS Integers, Sequences, FiniteSets, TLC

VARIABLES
    home_dir,   \* Option: what dirs_next::home_dir() returns in this environment
    fs,         \* host paths and store objects: [FilePaths -> Node]
    conf,       \* the registry file <D>/trove.conf of every registry directory D
    storeDirs,  \* the registry directories whose store/ directory exists
    pointer,    \* Option: the target text of the symlink <home>/.trove
    steps       \* the number of command lines run so far

vars == <<home_dir, fs, conf, storeDirs, pointer, steps>>

(***************************************************************************)
(* Bounds and the finite universe of the model.                            *)
(***************************************************************************)
\* the number of command lines in a run
MaxCmds == 3

SEP == "/"
HOMEVAR == "$HOME"

Names == {"n1", "n2"}

Home == <<SEP, "h">>

\* host files: one under the home directory, one outside it, and one below a
\* directory that is literally named $HOME
HostA == <<SEP, "h", SEP, "a">>
HostB == <<SEP, "e", SEP, "b">>
HostX == <<SEP, HOMEVAR, SEP, "a">>
HostPaths == {HostA, HostB, HostX}

\* registry directories handed to init: one under the home directory, one outside
DirIn == <<SEP, "h", SEP, "d">>
DirOut == <<SEP, "t">>
Dirs == {DirIn, DirOut}

None == <<>>
Some(x) == <<x>>

\* the comma-separated --categories argument, as the list of its segments
CatArgs == {None, Some(<<"c1", "", "c2">>)}
Categories == {"c1", "c2"}

(***************************************************************************)
(* Strings.                                                                *)
(***************************************************************************)
\* str::contains
Contains(s, pat) ==
    \E i \in 1..(Len(s) - Len(pat) + 1) : SubSeq(s, i, i + Len(pat) - 1) = pat

\* str::replace: every non-overlapping match, leftmost first
RECURSIVE Replace(_, _, _)
Replace(s, pat, rep) ==
    IF Len(s) < Len(pat) \/ Len(pat) = 0 THEN s
    ELSE IF SubSeq(s, 1, Len(pat)) = pat
         THEN rep \o Replace(SubSeq(s, Len(pat) + 1, Len(s)), pat, rep)
         ELSE <<Head(s)>> \o Replace(Tail(s), pat, rep)

\* PathBuf::from: two PathBufs are equal when their components are, so a
\* repeated or trailing separator does not count
RECURSIVE PathBuf(_)
PathBuf(s) ==
    IF Len(s) = 0 THEN s
    ELSE IF Head(s) = SEP /\ Len(s) > 1 /\ s[2] = SEP THEN PathBuf(Tail(s))
    ELSE IF Head(s) = SEP /\ Len(s) = 1 THEN s
    ELSE <<Head(s)>> \o (IF Len(s) = 2 /\ s[2] = SEP THEN <<>> ELSE PathBuf(Tail(s)))

\* PathBuf::push of a relative component
Push(base, name) == PathBuf(base \o <<SEP, name>>)

\* String::push_str
PushStr(s, t) == s \o t

get_true_path(path) ==
    IF home_dir # None /\ Contains(path, <<HOMEVAR>>)
    THEN PathBuf(Replace(path, <<HOMEVAR>>, home_dir[1]))
    ELSE PathBuf(path)

get_relative_path(path) ==
    IF home_dir # None /\ Contains(path, home_dir[1])
    THEN Replace(path, home_dir[1], <<HOMEVAR>>)
    ELSE path

(***************************************************************************)
(* The filesystem.                                                         *)
(***************************************************************************)
StoreOf(D) == Push(D, "store")
ConfOf(D) == Push(D, "trove.conf")
StoreObj(D, n) == Push(StoreOf(D), n)
StorePaths == {StoreObj(D, n) : D \in Dirs, n \in Names}
FilePaths == HostPaths \cup StorePaths

Absent == [kind |-> "none", data |-> "", target |-> <<>>]
File(c) == [kind |-> "file", data |-> c, target |-> <<>>]
Link(t) == [kind |-> "link", data |-> "", target |-> t]

\* what each host file holds before trove touches it
DataOf(p) == IF p = HostA THEN "A" ELSE IF p = HostB THEN "B" ELSE "X"
Contents == {DataOf(p) : p \in HostPaths}

\* the directory that holds p exists: a store object needs its store directory
DirPresent(sd, p) == \A D \in Dirs : (\E n \in Names : p = StoreObj(D, n)) => D \in sd

\* the path a symlink at p with target text t leads to
Parent(p) == SubSeq(p, 1, Len(p) - 2)
Follow(p, t) == IF Len(t) > 0 /\ Head(t) = SEP THEN PathBuf(t) ELSE PathBuf(Parent(p) \o <<SEP>> \o t)

\* std::fs::canonicalize: follows symlinks, fails on a missing object
RECURSIVE canonicalize(_, _, _)
canonicalize(f, p, depth) ==
    IF depth = 0 \/ p \notin FilePaths THEN None
    ELSE IF f[p].kind = "none" THEN None
    ELSE IF f[p].kind = "file" THEN Some(p)
    ELSE canonicalize(f, Follow(p, f[p].target), depth - 1)

\* every path given on the command line is absolute, so joining it to the
\* current directory leaves it as it is
get_absolute_path(f, rel) == canonicalize(f, PathBuf(rel), Cardinality(FilePaths) + 1)

\* std::fs::rename: moves the object at `from` (a symlink is moved, not
\* followed) and replaces whatever file or symlink is at `to`
rename(f, sd, from, to, fault) ==
    IF fault \/ from \notin FilePaths \/ to \notin FilePaths THEN [ok |-> FALSE, fs |-> f]
    ELSE IF f[from].kind = "none" \/ ~DirPresent(sd, to) THEN [ok |-> FALSE, fs |-> f]
    ELSE IF from = to THEN [ok |-> TRUE, fs |-> f]
    ELSE [ok |-> TRUE, fs |-> [f EXCEPT ![to] = f[from], ![from] = Absent]]

\* symlink::symlink_auto / symlink_file (symlink(2)): the target text src is
\* stored as given; fails when something is at dst already
symlink_auto(f, sd, src, dst, fault) ==
    IF fault \/ dst \notin FilePaths THEN [ok |-> FALSE, fs |-> f]
    ELSE IF f[dst].kind # "none" \/ ~DirPresent(sd, dst) THEN [ok |-> FALSE, fs |-> f]
    ELSE [ok |-> TRUE, fs |-> [f EXCEPT ![dst] = Link(src)]]

\* symlink::remove_symlink_auto (std::fs::remove_file, unlink(2)): removes the
\* symlink or the regular file at p; fails when nothing is there
remove_symlink_auto(f, p, fault) ==
    IF fault \/ p \notin FilePaths THEN [ok |-> FALSE, fs |-> f]
    ELSE IF f[p].kind = "none" THEN [ok |-> FALSE, fs |-> f]
    ELSE [ok |-> TRUE, fs |-> [f EXCEPT ![p] = Absent]]

(***************************************************************************)
(* The registry and its file.                                              *)
(***************************************************************************)
NoTrove == [config |-> [path |-> <<>>, store_path |-> <<>>], entries |-> {}]
NoFile == [state |-> "none", trove |-> NoTrove]
Json(t) == [state |-> "json", trove |-> t]
Truncated == [state |-> "truncated", trove |-> NoTrove]

\* the iteration orders of a HashSet
Orders(S) == {o \in [1..Cardinality(S) -> S] : \A i, j \in 1..Cardinality(S) : o[i] = o[j] => i = j}

\* json_to_file: File::create truncates the file, write_all fills it.  how is
\* "ok", "fail" (create failed: the file is as it was) or "trunc" (the write
\* failed after the file was truncated)
json_to_file(c, path, contents, how) ==
    IF how = "fail" \/ ~(\E D \in Dirs : ConfOf(D) = path) THEN [ok |-> FALSE, conf |-> c]
    ELSE LET D == CHOOSE D \in Dirs : ConfOf(D) = path
         IN  IF how = "trunc" THEN [ok |-> FALSE, conf |-> [c EXCEPT ![D] = Truncated]]
             ELSE [ok |-> TRUE, conf |-> [c EXCEPT ![D] = Json(contents)]]

\* Trove::save
save(t, c, how) == json_to_file(c, get_true_path(t.config.path), t, how)

\* where <home>/.trove leads: the registry file read by load(None)
PointerFile(ptr) == IF ptr = None \/ home_dir = None THEN None ELSE Some(Follow(Push(home_dir[1], ".trove"), ptr[1]))

\* Trove::load: res is "Ok", "NotInitialized" (no file found) or "Panic"
\* (json_from_file's expect on a file that does not parse)
load(c, ptr, p) ==
    LET file == IF p # None THEN p ELSE PointerFile(ptr)
    IN  IF file = None \/ ~(\E D \in Dirs : ConfOf(D) = file[1] /\ c[D].state # "none")
        THEN [res |-> "NotInitialized", trove |-> NoTrove]
        ELSE LET D == CHOOSE D \in Dirs : ConfOf(D) = file[1]
             IN  IF c[D].state = "json" THEN [res |-> "Ok", trove |-> c[D].trove]
                 ELSE [res |-> "Panic", trove |-> NoTrove]

(***************************************************************************)
(* The entry store: lookups over the entries in iteration order `it`.      *)
(***************************************************************************)
Entry(name, host_path, categories) == [name |-> name, host_path |-> host_path, categories |-> categories]

InSeq(x, s) == \E i \in 1..Len(s) : s[i] = x

\* the first element of `it` that is in the set `matching`
First(it, matching) ==
    LET idx == {i \in 1..Len(it) : it[i] \in matching}
    IN  IF idx = {} THEN None ELSE Some(it[CHOOSE i \in idx : \A j \in idx : i <= j])

\* a name lookup that finds nothing
find_entry_by_name_none(it, name) == None
find_entry_by_name(it, name) ==
    First(it, {e \in {it[i] : i \in 1..Len(it)} : e.name = name})

\* a path lookup that compares the recorded host path of each entry
find_entry_by_path_host(t, it, path) ==
    First(it, {e \in {it[i] : i \in 1..Len(it)} : get_true_path(e.host_path) = path})
find_entry_by_path(t, it, path) ==
    First(it, {e \in {it[i] : i \in 1..Len(it)} :
                 get_true_path(PushStr(PushStr(t.config.store_path, <<SEP>>), <<e.name>>)) = path})

HasCategory(e, category) == InSeq(category, e.categories)
\* a category lookup that answers with an empty collection instead of nothing
find_entry_by_category_empty(it, category) ==
    Some(SelectSeq(it, LAMBDA e : HasCategory(e, category)))
find_entry_by_category(it, category) ==
    LET out == SelectSeq(it, LAMBDA e : HasCategory(e, category))
    IN  IF Len(out) = 0 THEN None ELSE Some(out)

(***************************************************************************)
(* add                                                                     *)
(***************************************************************************)
NonEmpty(x) == x # ""
split_categories(categories) == IF categories = None THEN <<>> ELSE SelectSeq(categories[1], NonEmpty)

\* add_entry recording the host path as it is, without the $HOME shorthand
add_entry_raw_path(t, c, f, it, path, name, categories, how) ==
    LET cats == split_categories(categories)
        host_path == get_absolute_path(f, path)
    IN  IF find_entry_by_name(it, name) # None THEN [res |-> "DuplicateName", trove |-> t, conf |-> c]
        ELSE IF find_entry_by_path(t, it, path) # None THEN [res |-> "DuplicatePath", trove |-> t, conf |-> c]
        ELSE IF host_path = None THEN [res |-> "PathNotFound", trove |-> t, conf |-> c]
        ELSE LET t2 == [t EXCEPT !.entries = @ \cup {Entry(name, host_path[1], cats)}]
                 s == save(t2, c, how)
             IN  [res |-> IF s.ok THEN "Ok" ELSE "SaveFailed", trove |-> t2, conf |-> s.conf]

\* Trove::add_entry.  Returns the outcome, the in-memory trove and the registry files.
add_entry(t, c, f, it, path, name, categories, how) ==
    LET cats == split_categories(categories)
        host_path == get_absolute_path(f, path)
    IN  IF find_entry_by_name(it, name) # None THEN [res |-> "DuplicateName", trove |-> t, conf |-> c]
        ELSE IF find_entry_by_path(t, it, path) # None THEN [res |-> "DuplicatePath", trove |-> t, conf |-> c]
        ELSE IF host_path = None THEN [res |-> "PathNotFound", trove |-> t, conf |-> c]
        ELSE LET host_path_str ==
                     IF home_dir # None /\ Contains(host_path[1], home_dir[1])
                     THEN Replace(host_path[1], home_dir[1], <<HOMEVAR>>)
                     ELSE host_path[1]
                 t2 == [t EXCEPT !.entries = @ \cup {Entry(name, host_path_str, cats)}]
                 s == save(t2, c, how)
             IN  [res |-> IF s.ok THEN "Ok" ELSE "SaveFailed", trove |-> t2, conf |-> s.conf]

\* add_command with the move into the store done before the entry is validated
add_command_rename_first(t, c, f, sd, it, path, name, categories, faults) ==
    LET from_path == get_absolute_path(f, path)
        to_path == Push(get_true_path(t.config.store_path), name)
    IN  IF from_path = None THEN [res |-> "PathNotFound", trove |-> t, conf |-> c, fs |-> f]
        ELSE LET mv == rename(f, sd, from_path[1], to_path, faults.rename)
                 r == add_entry(t, c, f, it, from_path[1], name, categories, faults.save)
                 ln == symlink_auto(mv.fs, sd, to_path, from_path[1], faults.link)
             IN  IF ~mv.ok THEN [res |-> "RenameFailed", trove |-> t, conf |-> c, fs |-> f]
                 ELSE IF r.res # "Ok" THEN [res |-> r.res, trove |-> r.trove, conf |-> r.conf, fs |-> mv.fs]
                 ELSE IF ~ln.ok THEN [res |-> "SymlinkFailed", trove |-> r.trove, conf |-> r.conf, fs |-> mv.fs]
                 ELSE [res |-> "Ok", trove |-> r.trove, conf |-> r.conf, fs |-> ln.fs]

\* Trove::add_command
add_command(t, c, f, sd, it, path, name, categories, faults) ==
    LET from_path == get_absolute_path(f, path)
        to_path == Push(get_true_path(t.config.store_path), name)
    IN  IF from_path = None THEN [res |-> "PathNotFound", trove |-> t, conf |-> c, fs |-> f]
        ELSE LET r == add_entry(t, c, f, it, from_path[1], name, categories, faults.save)
                 mv == rename(f, sd, from_path[1], to_path, faults.rename)
                 ln == symlink_auto(mv.fs, sd, to_path, from_path[1], faults.link)
             IN  IF r.res # "Ok" THEN [res |-> r.res, trove |-> r.trove, conf |-> r.conf, fs |-> f]
                 ELSE IF ~mv.ok THEN [res |-> "RenameFailed", trove |-> r.trove, conf |-> r.conf, fs |-> f]
                 ELSE IF ~ln.ok THEN [res |-> "SymlinkFailed", trove |-> r.trove, conf |-> r.conf, fs |-> mv.fs]
                 ELSE [res |-> "Ok", trove |-> r.trove, conf |-> r.conf, fs |-> ln.fs]

(***************************************************************************)
(* remove                                                                  *)
(***************************************************************************)
\* Trove::remove_entry
remove_entry(t, c, entry, how) ==
    LET t2 == [t EXCEPT !.entries = @ \ {entry}]
        s == save(t2, c, how)
    IN  [ok |-> s.ok, trove |-> t2, conf |-> s.conf]

\* remove_found with the filesystem restored before the registry is rewritten
remove_found_restore_first(t, c, f, sd, e, faults) ==
    LET un == remove_symlink_auto(f, get_true_path(e.host_path), faults.unlink)
        from_path == Push(get_true_path(t.config.store_path), e.name)
        mv == rename(un.fs, sd, from_path, get_true_path(e.host_path), faults.rename)
        r == remove_entry(t, c, e, faults.save)
    IN  IF ~mv.ok THEN [res |-> "RenameFailed", trove |-> t, conf |-> c, fs |-> un.fs]
        ELSE IF ~r.ok THEN [res |-> "SaveFailed", trove |-> r.trove, conf |-> r.conf, fs |-> mv.fs]
        ELSE [res |-> "Ok", trove |-> r.trove, conf |-> r.conf, fs |-> mv.fs]

\* remove_found that gives up when there is no symlink to remove
remove_found_strict_unlink(t, c, f, sd, e, faults) ==
    LET r == remove_entry(t, c, e, faults.save)
        un == remove_symlink_auto(f, get_true_path(e.host_path), faults.unlink)
        from_path == Push(get_true_path(t.config.store_path), e.name)
        mv == rename(un.fs, sd, from_path, get_true_path(e.host_path), faults.rename)
    IN  IF ~r.ok THEN [res |-> "SaveFailed", trove |-> r.trove, conf |-> r.conf, fs |-> f]
        ELSE IF ~un.ok THEN [res |-> "UnlinkFailed", trove |-> r.trove, conf |-> r.conf, fs |-> f]
        ELSE IF ~mv.ok THEN [res |-> "RenameFailed", trove |-> r.trove, conf |-> r.conf, fs |-> un.fs]
        ELSE [res |-> "Ok", trove |-> r.trove, conf |-> r.conf, fs |-> mv.fs]

\* the body shared by the two selecting arms of remove_command
remove_found(t, c, f, sd, e, faults) ==
    LET r == remove_entry(t, c, e, faults.save)
        un == remove_symlink_auto(f, get_true_path(e.host_path), faults.unlink)
        from_path == Push(get_true_path(t.config.store_path), e.name)
        mv == rename(un.fs, sd, from_path, get_true_path(e.host_path), faults.rename)
    IN  IF ~r.ok THEN [res |-> "SaveFailed", trove |-> r.trove, conf |-> r.conf, fs |-> f]
        ELSE IF ~mv.ok THEN [res |-> "RenameFailed", trove |-> r.trove, conf |-> r.conf, fs |-> un.fs]
        ELSE [res |-> "Ok", trove |-> r.trove, conf |-> r.conf, fs |-> mv.fs]

\* remove_command that, given both selectors, goes by the name
remove_command_name_wins(t, c, f, sd, it, path, name, faults) ==
    LET stay(res) == [res |-> res, trove |-> t, conf |-> c, fs |-> f]
    IN  IF path = None /\ name = None THEN stay("AmbiguousSelector")
        ELSE IF name # None
        THEN LET e == find_entry_by_name(it, name[1])
             IN  IF e = None THEN stay("EntryNotFound")
                 ELSE remove_found(t, c, f, sd, e[1], faults)
        ELSE LET abs == get_absolute_path(f, path[1])
             IN  IF abs = None THEN stay("PathNotFound")
                 ELSE LET e == find_entry_by_path(t, it, abs[1])
                      IN  IF e = None THEN stay("EntryNotFound")
                          ELSE remove_found(t, c, f, sd, e[1], faults)

\* Trove::remove_command
remove_command(t, c, f, sd, it, path, name, faults) ==
    LET stay(res) == [res |-> res, trove |-> t, conf |-> c, fs |-> f]
    IN  IF path = None /\ name = None THEN stay("AmbiguousSelector")
        ELSE IF path # None /\ name # None THEN stay("AmbiguousSelector")
        ELSE IF path = None
        THEN LET e == find_entry_by_name(it, name[1])
             IN  IF e = None THEN stay("EntryNotFound")
                 ELSE remove_found(t, c, f, sd, e[1], faults)
        ELSE LET abs == get_absolute_path(f, path[1])
             IN  IF abs = None THEN stay("PathNotFound")
                 ELSE LET e == find_entry_by_path(t, it, abs[1])
                      IN  IF e = None THEN stay("EntryNotFound")
                          ELSE remove_found(t, c, f, sd, e[1], faults)

(***************************************************************************)
(* deploy and pack                                                         *)
(***************************************************************************)
\* the symlink target deploy_command builds: store_path with the name appended
deploy_source(t, e) == PushStr(t.config.store_path, <<e.name>>)

\* one round of a deploy loop: a failed symlink creation is reported and skipped
deploy_one(t, f, sd, e, failing) ==
    symlink_auto(f, sd, deploy_source(t, e), get_true_path(e.host_path), e.name \in failing).fs

RECURSIVE deploy_each(_, _, _, _, _)
deploy_each(t, f, sd, es, failing) ==
    IF Len(es) = 0 THEN f
    ELSE deploy_each(t, deploy_one(t, f, sd, Head(es), failing), sd, Tail(es), failing)

\* the entries a deploy or pack acts on, in order; res tells a selector error
select_entries(it, category, name) ==
    IF category = None /\ name = None THEN [res |-> "Ok", es |-> it]
    ELSE IF category = None
    THEN LET e == find_entry_by_name(it, name[1])
         IN  IF e = None THEN [res |-> "EntryNotFound", es |-> <<>>] ELSE [res |-> "Ok", es |-> e]
    ELSE IF name = None
    THEN LET es == find_entry_by_category(it, category[1])
         IN  IF es = None THEN [res |-> "NoMatchingEntries", es |-> <<>>] ELSE [res |-> "Ok", es |-> es[1]]
    ELSE [res |-> "AmbiguousSelector", es |-> <<>>]

\* deploy_command that reports an error when it could create no symlink at all
deploy_command_escalating(t, f, sd, it, category, name, failing) ==
    LET sel == select_entries(it, category, name)
        out == deploy_each(t, f, sd, sel.es, failing)
    IN  [res |-> IF sel.res = "Ok" /\ Len(sel.es) > 0 /\ out = f THEN "SymlinkFailed" ELSE sel.res,
         fs |-> out]

\* Trove::deploy_command
deploy_command(t, f, sd, it, category, name, failing) ==
    LET sel == select_entries(it, category, name)
    IN  [res |-> sel.res, fs |-> deploy_each(t, f, sd, sel.es, failing)]

\* one round of a pack loop: a failed removal is ignored
pack_one(f, e, failing) == remove_symlink_auto(f, get_true_path(e.host_path), e.name \in failing).fs

RECURSIVE pack_each(_, _, _)
pack_each(f, es, failing) ==
    IF Len(es) = 0 THEN f
    ELSE pack_each(pack_one(f, Head(es), failing), Tail(es), failing)

\* Trove::pack_command
pack_command(t, f, it, category, name, failing) ==
    LET sel == select_entries(it, category, name)
    IN  [res |-> sel.res, fs |-> pack_each(f, sel.es, failing)]

(***************************************************************************)
(* init                                                                    *)
(***************************************************************************)
\* Trove::create_conf_symlink: symlink_file fails when <home>/.trove exists
create_conf_symlink(t, ptr, fault) ==
    IF home_dir = None THEN [res |-> "NoHome", ptr |-> ptr]
    ELSE IF fault \/ ptr # None THEN [res |-> "Ok", ptr |-> ptr]
    ELSE [res |-> "Ok", ptr |-> Some(t.config.path)]

\* Trove::create
create(c, sd, ptr, path, faults) ==
    LET t == [config |-> [path |-> get_relative_path(Push(path, "trove.conf")),
                          store_path |-> get_relative_path(Push(path, "store"))],
              entries |-> {}]
        w == json_to_file(c, get_true_path(t.config.path), t, faults.save)
        sd2 == IF faults.mkdir THEN sd ELSE sd \cup {path}
        ln == create_conf_symlink(t, ptr, faults.link)
    IN  IF ~w.ok THEN [res |-> "SaveFailed", trove |-> t, conf |-> w.conf, dirs |-> sd, ptr |-> ptr]
        ELSE [res |-> ln.res, trove |-> t, conf |-> w.conf, dirs |-> sd2, ptr |-> ln.ptr]

\* main, the Init arm: the directory `path` exists
init_command(c, sd, ptr, path, faults) ==
    IF c[path].state # "none"
    THEN LET l == load(c, ptr, Some(ConfOf(path)))
             ln == create_conf_symlink(l.trove, ptr, faults.link)
         IN  IF l.res # "Ok" THEN [res |-> l.res, trove |-> l.trove, conf |-> c, dirs |-> sd, ptr |-> ptr]
             ELSE [res |-> ln.res, trove |-> l.trove, conf |-> c, dirs |-> sd, ptr |-> ln.ptr]
    ELSE create(c, sd, ptr, path, faults)

(***************************************************************************)
(* The state machine: one action per command line.                         *)
(***************************************************************************)
\* the steps of one command that are made to fail.  In add every failure ends
\* the command, so one failing step is every case; remove and init go on after
\* a failed unlink, mkdir or symlink
NoFault == [save |-> "ok", rename |-> FALSE, link |-> FALSE, unlink |-> FALSE, mkdir |-> FALSE]
AddFaults ==
    {NoFault, [NoFault EXCEPT !.save = "fail"], [NoFault EXCEPT !.save = "trunc"],
     [NoFault EXCEPT !.rename = TRUE], [NoFault EXCEPT !.link = TRUE]}
RemoveFaults ==
    {NoFault, [NoFault EXCEPT !.save = "fail"], [NoFault EXCEPT !.save = "trunc"],
     [NoFault EXCEPT !.unlink = TRUE], [NoFault EXCEPT !.rename = TRUE],
     [NoFault EXCEPT !.unlink = TRUE, !.rename = TRUE]}
InitFaults ==
    {NoFault, [NoFault EXCEPT !.save = "fail"], [NoFault EXCEPT !.save = "trunc"],
     [NoFault EXCEPT !.mkdir = TRUE], [NoFault EXCEPT !.link = TRUE],
     [NoFault EXCEPT !.mkdir = TRUE, !.link = TRUE]}

Init ==
    /\ home_dir \in {None, Some(Home)}
    /\ fs = [p \in FilePaths |-> IF p \in HostPaths THEN File(DataOf(p)) ELSE Absent]
    /\ conf = [D \in Dirs |-> NoFile]
    /\ storeDirs = {}
    /\ pointer = None
    /\ steps = 0

\* one more command line, while the run is within its bound
Tick == steps < MaxCmds /\ steps' = steps + 1

\* what main loads before every command but init
Loaded == load(conf, pointer, None)

\* the loaded trove and the orders its entries can be iterated in
T == Loaded.trove
Its == Orders(T.entries)

InitArgs == Dirs \X InitFaults
InitOutcome(a) == init_command(conf, storeDirs, pointer, a[1], a[2])

InitCmd ==
    /\ Tick
    /\ \E a \in InitArgs :
        LET r == InitOutcome(a)
        IN  /\ conf' = r.conf
            /\ storeDirs' = r.dirs
            /\ pointer' = r.ptr
            /\ UNCHANGED <<home_dir, fs>>

\* a command that main could not load a registry for
NotLoaded ==
    /\ Tick
    /\ Loaded.res # "Ok"
    /\ UNCHANGED <<home_dir, fs, conf, storeDirs, pointer>>

AddArgs == HostPaths \X Names \X CatArgs \X AddFaults
AddOutcome(a, it) == add_command(T, conf, fs, storeDirs, it, a[1], a[2], a[3], a[4])

AddCmd ==
    /\ Tick
    /\ Loaded.res = "Ok"
    /\ \E a \in AddArgs, it \in Its :
          LET r == AddOutcome(a, it)
          IN  /\ fs' = r.fs
              /\ conf' = r.conf
                /\ UNCHANGED <<home_dir, storeDirs, pointer>>

\* remove --path P, remove --name N, remove, and remove with both
RemoveSelectors ==
    {[path |-> Some(p), name |-> None] : p \in HostPaths}
        \cup {[path |-> None, name |-> Some(n)] : n \in Names}
        \cup {[path |-> None, name |-> None], [path |-> Some(HostA), name |-> Some("n1")]}

RemoveArgs == RemoveSelectors \X RemoveFaults
RemoveOutcome(a, it) == remove_command(T, conf, fs, storeDirs, it, a[1].path, a[1].name, a[2])

RemoveCmd ==
    /\ Tick
    /\ Loaded.res = "Ok"
    /\ \E a \in RemoveArgs, it \in Its :
          LET r == RemoveOutcome(a, it)
          IN  /\ fs' = r.fs
              /\ conf' = r.conf
                /\ UNCHANGED <<home_dir, storeDirs, pointer>>

\* deploy / pack with no selector, --name N, --category C, and with both
Selectors ==
    {[category |-> None, name |-> Some(n)] : n \in Names}
        \cup {[category |-> Some(c), name |-> None] : c \in Categories}
        \cup {[category |-> None, name |-> None], [category |-> Some("c1"), name |-> Some("n1")]}

\* the names whose symlink creation or removal is made to fail
LinkArgs == Selectors \X (SUBSET Names)
DeployOutcome(a, it) == deploy_command(T, fs, storeDirs, it, a[1].category, a[1].name, a[2])
PackOutcome(a, it) == pack_command(T, fs, it, a[1].category, a[1].name, a[2])

DeployCmd ==
    /\ Tick
    /\ Loaded.res = "Ok"
    /\ \E a \in LinkArgs, it \in Its :
          LET r == DeployOutcome(a, it)
          IN  /\ fs' = r.fs
              /\ UNCHANGED <<home_dir, conf, storeDirs, pointer>>

PackCmd ==
    /\ Tick
    /\ Loaded.res = "Ok"
    /\ \E a \in LinkArgs, it \in Its :
          LET r == PackOutcome(a, it)
          IN  /\ fs' = r.fs
              /\ UNCHANGED <<home_dir, conf, storeDirs, pointer>>

\* main, the Status arm: prints the loaded trove
StatusCmd ==
    /\ Tick
    /\ Loaded.res = "Ok"
    /\ UNCHANGED <<home_dir, fs, conf, storeDirs, pointer>>

Next == InitCmd \/ NotLoaded \/ AddCmd \/ RemoveCmd \/ DeployCmd \/ PackCmd \/ StatusCmd

Spec == Init /\ [][Next]_vars

(***************************************************************************)
(* Properties.  A command's outcome in a state is what its action does     *)
(* from that state, so a property of the outcomes of every reachable state *)
(* is a property of every step.                                            *)
(***************************************************************************)
Ready == Loaded.res = "Ok"

\* the entries of the registry file of directory D (none when it does not parse)
Persisted(c, D) == c[D].trove.entries

\* the store object of entry e of trove t, and its resolved host path
StorePathOf(t, e) == Push(get_true_path(t.config.store_path), e.name)
HostPathOf(e) == get_true_path(e.host_path)

UniqueNames(es) == \A e1, e2 \in es : e1.name = e2.name => e1 = e2
UniqueHostPaths(es) == \A e1, e2 \in es : HostPathOf(e1) = HostPathOf(e2) => e1 = e2

\* C1: in every reachable state, neither the in-memory entry set nor any
\* persisted registry holds two entries with the same name.
C1_UniqueNames ==
    /\ \A D \in Dirs : UniqueNames(Persisted(conf, D))
    /\ Ready =>
          /\ UniqueNames(T.entries)
          /\ \A a \in AddArgs, it \in Its : UniqueNames(AddOutcome(a, it).trove.entries)
          /\ \A a \in RemoveArgs, it \in Its : UniqueNames(RemoveOutcome(a, it).trove.entries)

\* two entries are registered, and an add that reuses one of their names is refused
C1_Witness ==
    /\ Ready
    /\ Cardinality(T.entries) = 2
    /\ \E a \in AddArgs, it \in Its : AddOutcome(a, it).res = "DuplicateName"

\* C2: no two entries of a registry have the same resolved host_path.
C2_UniqueHostPaths ==
    \A D \in Dirs : UniqueHostPaths(Persisted(conf, D))

\* C3: an add refused as a duplicate leaves the in-memory entry set, the
\* registry files, the store and the host filesystem as they were.
C3_DuplicateAddChangesNothing ==
    Ready =>
        \A a \in AddArgs, it \in Its :
            LET r == AddOutcome(a, it)
            IN  r.res \in {"DuplicateName", "DuplicatePath"} =>
                    r.fs = fs /\ r.conf = conf /\ r.trove = T

\* an add is refused for its name and another for its path
C3_Witness ==
    /\ Ready
    /\ \E a \in AddArgs, it \in Its : AddOutcome(a, it).res = "DuplicateName"
    /\ \E a \in AddArgs, it \in Its : AddOutcome(a, it).res = "DuplicatePath"

\* the registry directory whose file the trove t is saved to
RegistryDir(t) == CHOOSE D \in Dirs : ConfOf(D) = get_true_path(t.config.path)

\* the host path of entry e is a symlink that leads to e's store object
Deployed(t, f, e) ==
    /\ HostPathOf(e) \in FilePaths
    /\ f[HostPathOf(e)].kind = "link"
    /\ Follow(HostPathOf(e), f[HostPathOf(e)].target) = StorePathOf(t, e)

Named(n) == [name |-> n]

\* C4: for an existing untracked path P and an unused name n, add(P, n) then
\* remove(--name n), every step succeeding, leaves P a real file with its
\* original content, no store object n and no entry n.
C4_AddThenRemoveRestores ==
    Ready =>
        \A P \in HostPaths, n \in Names, cats \in CatArgs, it \in Its :
            LET r1 == add_command(T, conf, fs, storeDirs, it, P, n, cats, NoFault)
                l2 == load(r1.conf, pointer, None)
            IN  ((\A e \in T.entries : HostPathOf(e) # P) /\ r1.res = "Ok") =>
                    \A it2 \in Orders(l2.trove.entries) :
                        LET r2 == remove_command(l2.trove, r1.conf, r1.fs, storeDirs, it2,
                                                 None, Some(n), NoFault)
                        IN  r2.res = "Ok" =>
                                /\ r2.fs[P] = File(fs[get_absolute_path(fs, P)[1]].data)
                                /\ r2.fs[StorePathOf(T, Named(n))].kind = "none"
                                /\ \A e \in r2.trove.entries \cup Persisted(r2.conf, RegistryDir(T)) : e.name # n

\* C5: for an entry whose host path is a symlink into the store, pack(name)
\* then deploy(name) ends with a symlink at the resolved host path whose
\* target is the store location of the entry.
C5_PackThenDeployRelinks ==
    Ready =>
        \A e \in T.entries, it \in Its :
            LET p == pack_command(T, fs, it, None, Some(e.name), {})
                d == deploy_command(T, p.fs, storeDirs, it, None, Some(e.name), {})
            IN  Deployed(T, fs, e) => Deployed(T, d.fs, e)

\* what C6 says of a successful add of `path` as `name`, with `at` the path
\* that is expected to become the symlink and to be recorded
AddPostcondition(r, at, name) ==
    LET new == r.trove.entries \ T.entries
    IN  /\ r.fs[StorePathOf(T, Named(name))] = fs[get_absolute_path(fs, at)[1]]
        /\ r.fs[StorePathOf(T, Named(name))].kind = "file"
        /\ r.fs[at].kind = "link"
        /\ Follow(at, r.fs[at].target) = StorePathOf(T, Named(name))
        /\ T.entries \subseteq r.trove.entries
        /\ Persisted(r.conf, RegistryDir(T)) = r.trove.entries
        /\ Cardinality(new) = 1
        /\ \A e \in new :
              /\ e.name = name
              /\ e.host_path = get_relative_path(at)
              /\ \A it2 \in Orders(r.trove.entries) : find_entry_by_name(it2, name) = Some(e)

\* C6 as claimed: after a successful add(P, n, cats) the store holds n with
\* what was at P, P is a symlink to it, and the registry has exactly one new
\* entry, named n, whose host_path is the portable form of P and which
\* find-by-name returns.
C6_AddPostconditionAtP ==
    Ready =>
        \A a \in AddArgs, it \in Its :
            LET r == AddOutcome(a, it)
            IN  r.res = "Ok" => AddPostcondition(r, a[1], a[2])

\* C6 amended: the same, of the canonical (symlink-resolved) form of P.
C6_AddPostconditionAtCanonicalPath ==
    Ready =>
        \A a \in AddArgs, it \in Its :
            LET r == AddOutcome(a, it)
            IN  r.res = "Ok" => AddPostcondition(r, get_absolute_path(fs, a[1])[1], a[2])

\* an add succeeds on a path under the home directory, and another on a path
\* that is a symlink to an object no entry tracks
C6_Witness ==
    /\ Ready
    /\ \E a \in AddArgs, it \in Its : AddOutcome(a, it).res = "Ok" /\ a[1] = HostA
    /\ \E a \in AddArgs, it \in Its :
          AddOutcome(a, it).res = "Ok" /\ get_absolute_path(fs, a[1]) # Some(a[1])

\* C7: every entry of a persisted registry has its object in the store directory.
C7_EntriesHaveStoreObjects ==
    \A D \in Dirs :
        \A e \in Persisted(conf, D) :
            /\ StorePathOf(conf[D].trove, e) \in FilePaths
            /\ fs[StorePathOf(conf[D].trove, e)].kind # "none"

\* C8: no command sequence, with any step failing, loses file content: every
\* content is still at a host path or in the store, and pack and remove
\* leave a real file at a host path as it is.
C8_NoContentLost ==
    /\ \A data \in Contents : \E p \in FilePaths : fs[p] = File(data)
    /\ Ready =>
          \A p \in HostPaths, it \in Its :
              fs[p].kind = "file" =>
                  /\ \A a \in LinkArgs : PackOutcome(a, it).fs[p] = fs[p]
                  /\ \A a \in RemoveArgs : RemoveOutcome(a, it).fs[p] = fs[p]

\* C9: once init(D) has completed successfully, <home>/.trove resolves to
\* D/trove.conf.
C9_PointerResolvesToInitDir ==
    \A a \in InitArgs :
        InitOutcome(a).res = "Ok" => PointerFile(InitOutcome(a).ptr) = Some(ConfOf(a[1]))

\* the entry that a remove selector picks
Selected(sel, e) ==
    /\ sel.name # None => e.name = sel.name[1]
    /\ sel.path # None => Some(StorePathOf(T, e)) = get_absolute_path(fs, sel.path[1])

\* C10: remove rewrites the registry without the entry before it touches the
\* filesystem: when the move back fails the persisted registry no longer has
\* the entry, and when the registry write fails the filesystem is untouched.
C10_RemovePersistsBeforeRestore ==
    Ready =>
        \A a \in RemoveArgs, it \in Its :
            LET r == RemoveOutcome(a, it)
            IN  /\ r.res = "RenameFailed" =>
                      \E e \in T.entries :
                          /\ Selected(a[1], e)
                          /\ Persisted(r.conf, RegistryDir(T)) = T.entries \ {e}
                /\ r.res = "SaveFailed" => r.fs = fs

\* a remove of a deployed entry whose move back fails, and one whose registry
\* write fails
C10_Witness ==
    /\ Ready
    /\ \E e \in T.entries : Deployed(T, fs, e)
    /\ \E a \in RemoveArgs, it \in Its : RemoveOutcome(a, it).res = "RenameFailed"
    /\ \E a \in RemoveArgs, it \in Its : RemoveOutcome(a, it).res = "SaveFailed"

\* C11: add inserts and persists the new entry only after the host object has
\* been moved into the store: an add whose rename into the store fails leaves
\* the persisted registry without an entry of the new name.
C11_AddPersistsAfterStore ==
    Ready =>
        \A a \in AddArgs, it \in Its :
            LET r == AddOutcome(a, it)
            IN  r.res = "RenameFailed" =>
                    \A e \in Persisted(r.conf, RegistryDir(T)) : e.name # a[2]

\* C12: a second deploy with the same selector, in the same environment (what
\* made a symlink creation fail the first time still does), changes nothing
\* the first one left and ends as the first one did: with success for every
\* selector that selects, although its symlink creations fail.
C12_DeployTwiceIsDeployOnce ==
    Ready =>
        \A a \in LinkArgs, it \in Its :
            LET d1 == DeployOutcome(a, it)
            IN  \A it2 \in Its, failing2 \in {F \in SUBSET Names : a[2] \subseteq F} :
                    LET d2 == deploy_command(T, d1.fs, storeDirs, it2,
                                             a[1].category, a[1].name, failing2)
                    IN  d2.fs = d1.fs /\ d2.res = d1.res

\* a deploy creates a symlink, so that the one after it finds the symlink there
C12_Witness ==
    /\ Ready
    /\ \E a \in LinkArgs, it \in Its : DeployOutcome(a, it).res = "Ok" /\ DeployOutcome(a, it).fs # fs

\* whether the i-th symlink creation (removal) of a deploy (pack) over the
\* entries es succeeds, and whether it does when it is the only one
DeployAttemptOk(f, es, failing, i) ==
    symlink_auto(deploy_each(T, f, storeDirs, SubSeq(es, 1, i - 1), failing), storeDirs,
                 deploy_source(T, es[i]), get_true_path(es[i].host_path), es[i].name \in failing).ok
DeployAloneOk(f, e, failing) ==
    symlink_auto(f, storeDirs, deploy_source(T, e), get_true_path(e.host_path), e.name \in failing).ok
PackAttemptOk(f, es, failing, i) ==
    remove_symlink_auto(pack_each(f, SubSeq(es, 1, i - 1), failing),
                        get_true_path(es[i].host_path), es[i].name \in failing).ok
PackAloneOk(f, e, failing) ==
    remove_symlink_auto(f, get_true_path(e.host_path), e.name \in failing).ok

\* C13: a bulk deploy or pack (no selector, or a category that some entry
\* has) returns success whatever fails, attempts every selected entry exactly
\* once, and each entry's attempt succeeds or fails as it would on its own.
C13_BulkFailuresAreIsolated ==
    Ready =>
        \A a \in LinkArgs, it \in Its :
            LET es == select_entries(it, a[1].category, a[1].name).es
            IN  (a[1].name = None /\ select_entries(it, a[1].category, a[1].name).res = "Ok") =>
                    /\ DeployOutcome(a, it).res = "Ok"
                    /\ PackOutcome(a, it).res = "Ok"
                    /\ \A i, j \in 1..Len(es) : es[i] = es[j] => i = j
                    /\ \A i \in 1..Len(es) :
                          /\ DeployAttemptOk(fs, es, a[2], i) = DeployAloneOk(fs, es[i], a[2])
                          /\ PackAttemptOk(fs, es, a[2], i) = PackAloneOk(fs, es[i], a[2])

\* C14: remove with both selectors or with neither, and remove with a
\* selector that picks no entry, return an error and leave the entry set, the
\* registry files, the store and the host filesystem as they were.
C14_RemoveSelectorErrors ==
    Ready =>
        \A a \in RemoveArgs, it \in Its :
            LET r == RemoveOutcome(a, it)
                one == (a[1].path = None) # (a[1].name = None)
            IN  /\ ~one => r.res = "AmbiguousSelector"
                /\ (one /\ ~\E e \in T.entries : Selected(a[1], e)) =>
                       r.res \in {"EntryNotFound", "PathNotFound"}
                /\ r.res \in {"AmbiguousSelector", "EntryNotFound", "PathNotFound"} =>
                       r.fs = fs /\ r.conf = conf /\ r.trove = T

\* with an entry registered, a remove is refused for its two selectors, one
\* for a name no entry has, and one succeeds
C14_Witness ==
    /\ Ready
    /\ T.entries # {}
    /\ \E a \in RemoveArgs, it \in Its :
          a[1].path # None /\ a[1].name # None /\ RemoveOutcome(a, it).res = "AmbiguousSelector"
    /\ \E a \in RemoveArgs, it \in Its : RemoveOutcome(a, it).res = "EntryNotFound"
    /\ \E a \in RemoveArgs, it \in Its : RemoveOutcome(a, it).res = "Ok"

\* the entries a deploy or pack selector stands for
Chosen(sel) ==
    IF sel.category = None /\ sel.name = None THEN T.entries
    ELSE IF sel.category = None THEN {e \in T.entries : e.name = sel.name[1]}
    ELSE IF sel.name = None
    THEN {e \in T.entries : \E i \in 1..Len(e.categories) : e.categories[i] = sel.category[1]}
    ELSE {}

\* C15: deploy and pack act on every entry without a selector, on the entry
\* of the name with a name, on the entries that have the category with a
\* category, each once; with both selectors, an unknown name or a category
\* that no entry has they return an error and leave every path as it was.
C15_DeployPackSelection ==
    Ready =>
        \A a \in LinkArgs, it \in Its :
            LET sel == select_entries(it, a[1].category, a[1].name)
                d == DeployOutcome(a, it)
                p == PackOutcome(a, it)
                none == a[1].category = None /\ a[1].name = None
            IN  /\ d.res = sel.res /\ p.res = sel.res
                /\ sel.res = "Ok" <=> (none \/ Chosen(a[1]) # {})
                /\ sel.res = "Ok" =>
                      /\ {sel.es[i] : i \in 1..Len(sel.es)} = Chosen(a[1])
                      /\ Len(sel.es) = Cardinality(Chosen(a[1]))
                /\ sel.res # "Ok" => d.fs = fs /\ p.fs = fs

\* one of two entries has the category c1, so that the selectors differ in
\* what they select, and a command with both selectors is refused
C15_Witness ==
    /\ Ready
    /\ Cardinality(T.entries) = 2
    /\ Cardinality(Chosen([category |-> Some("c1"), name |-> None])) = 1
    /\ \E a \in LinkArgs, it \in Its : DeployOutcome(a, it).res = "AmbiguousSelector"
    /\ \E a \in LinkArgs, it \in Its : a[1].category # None /\ PackOutcome(a, it).fs # fs

\* C16: init on a directory that holds a registry leaves the registry files
\* and the store directories as they are, succeeds also when the pointer
\* exists, establishes the pointer to that registry when there was none, and
\* changes nothing when it is run again.
C16_InitOnExistingRegistry ==
    \A a \in InitArgs :
        LET r == InitOutcome(a)
        IN  conf[a[1]].state = "json" =>
                /\ r.conf = conf /\ r.dirs = storeDirs
                /\ home_dir # None => r.res = "Ok"
                /\ pointer # None => r.ptr = pointer
                /\ (r.res = "Ok" /\ pointer = None) => PointerFile(r.ptr) = Some(ConfOf(a[1]))
                /\ init_command(r.conf, r.dirs, r.ptr, a[1], a[2]) = r

\* what a deploy or pack with selector sel may do to the filesystem f to get
\* g: nothing in the store, and at the host paths of the selected entries
\* only the creation or the removal of a symlink
OnlyLinksOfChosen(sel, f, g) ==
    /\ \A p \in StorePaths : g[p] = f[p]
    /\ \A p \in FilePaths :
          g[p] # f[p] =>
              /\ \E e \in Chosen(sel) : HostPathOf(e) = p
              /\ \/ f[p].kind = "none" /\ g[p].kind = "link"
                 \/ f[p].kind = "link" /\ g[p].kind = "none"

\* C17: deploy and pack, with any selector and any outcome, leave the
\* registry and the contents of the store as they are (neither command has a
\* step that writes the registry: the outcome carries a filesystem only) and
\* only create or remove links at host paths of selected entries.
C17_DeployPackFrame ==
    Ready =>
        \A a \in LinkArgs, it \in Its :
            /\ OnlyLinksOfChosen(a[1], fs, DeployOutcome(a, it).fs)
            /\ OnlyLinksOfChosen(a[1], fs, PackOutcome(a, it).fs)

\* C18: for a tracked entry n whose host symlink pack(name = n) has removed,
\* remove(--name n) succeeds, puts the store object back at the entry's
\* resolved host path as a real file and deletes the entry from the registry.
C18_RemoveAfterPack ==
    Ready =>
        \A e \in T.entries, it \in Its, it2 \in Its :
            LET p == pack_command(T, fs, it, None, Some(e.name), {})
                r == remove_command(T, conf, p.fs, storeDirs, it2, None, Some(e.name), NoFault)
            IN  Deployed(T, fs, e) =>
                    /\ p.res = "Ok" /\ p.fs[HostPathOf(e)].kind = "none"
                    /\ r.res = "Ok"
                    /\ r.fs[HostPathOf(e)] = fs[StorePathOf(T, e)]
                    /\ r.fs[HostPathOf(e)].kind = "file"
                    /\ r.fs[StorePathOf(T, e)].kind = "none"
                    /\ e \notin r.trove.entries
                    /\ Persisted(r.conf, RegistryDir(T)) = T.entries \ {e}

\* an entry is deployed, and a pack by its name removes its symlink
C18_Witness ==
    /\ Ready
    /\ \E e \in T.entries, it \in Its :
          /\ Deployed(T, fs, e)
          /\ pack_command(T, fs, it, None, Some(e.name), {}).fs[HostPathOf(e)].kind = "none"

\* remove by the host path of entry e and by its name, under the same failures
RemoveByPath(e, it, faults) ==
    remove_command(T, conf, fs, storeDirs, it, Some(HostPathOf(e)), None, faults)
RemoveByName(e, it, faults) ==
    remove_command(T, conf, fs, storeDirs, it, None, Some(e.name), faults)

\* the host path of entry e is absent and its object is in the store
Packed(e) ==
    /\ HostPathOf(e) \in HostPaths
    /\ fs[HostPathOf(e)].kind = "none"
    /\ fs[StorePathOf(T, e)].kind = "file"

\* C19 as claimed: for a tracked entry n with host path P, deployed or packed,
\* remove(--path P) and remove(--name n) end with the same outcome in the
\* same registry, store and host filesystem.
C19_RemoveByPathIsRemoveByName ==
    Ready =>
        \A e \in T.entries, it \in Its, it2 \in Its, faults \in RemoveFaults :
            ((HostPathOf(e) \in HostPaths /\ Deployed(T, fs, e)) \/ Packed(e)) =>
                RemoveByPath(e, it, faults) = RemoveByName(e, it2, faults)

\* C19 amended: the two are the same for a deployed entry; for a packed
\* one remove(--path P) finds no object at P, returns an error and changes
\* nothing.
C19_RemoveByPathOfDeployedEntry ==
    Ready =>
        \A e \in T.entries, it \in Its, it2 \in Its, faults \in RemoveFaults :
            /\ (HostPathOf(e) \in HostPaths /\ Deployed(T, fs, e)) =>
                  RemoveByPath(e, it, faults) = RemoveByName(e, it2, faults)
            /\ Packed(e) =>
                  RemoveByPath(e, it, faults) = [res |-> "PathNotFound", trove |-> T, conf |-> conf, fs |-> fs]

\* one entry is deployed and a remove by its path succeeds; another has its
\* object in the store and nothing at its host path
C19_Witness ==
    /\ Ready
    /\ \E e \in T.entries, it \in Its :
          /\ HostPathOf(e) \in HostPaths /\ Deployed(T, fs, e)
          /\ RemoveByPath(e, it, NoFault).res = "Ok"
    /\ \E e \in T.entries : Packed(e)

\* absolute paths to convert: the host paths (one of them with the literal
\* text $HOME), the home directory itself, and a path that has the home
\* directory's text in a non-leading position
PathSamples == HostPaths \cup {Home, <<SEP, "e", SEP, "h">>}

\* C20: converting an absolute path to portable form replaces only a leading
\* home directory by $HOME, converting the result back yields the path
\* again, and with the home directory unknown both conversions return their
\* input.
C20_PortableRoundTrip ==
    \A p \in PathSamples :
        /\ home_dir # None =>
              get_relative_path(p) =
                  IF SubSeq(p, 1, Len(home_dir[1])) = home_dir[1]
                  THEN <<HOMEVAR>> \o SubSeq(p, Len(home_dir[1]) + 1, Len(p))
                  ELSE p
        /\ get_true_path(get_relative_path(p)) = p
        /\ home_dir = None => get_relative_path(p) = p /\ get_true_path(p) = p

====
